---- MODULE Spec2Model ----
(***************************************************************************)
(* A model of all_ips.py: the WHOIS prefix resolver, the prefix expander,  *)
(* the collector with its worker pool, and the command-line driver.        *)
(*                                                                         *)
(* Text is modelled as it is in Python: a str is a sequence of one-        *)
(* character strings, so that strip, startswith, split, lower, upper and   *)
(* the parsing and printing of addresses are computed, not assumed.        *)
(***************************************************************************)
EXTENDS Integers, Sequences, FiniteSets, TLC

VARIABLES
    pc,            \* main: the statement main() is at
    asn,           \* main: args.asn, then the normalized asn (lines 79-83)
    batch,         \* main: args.batch
    run,           \* get_all_prefixes_from_asn: outcome of subprocess.run
    prefixes,      \* the resolver's return value / save_all_ips's argument
    response,      \* main: what input() returned
    prompted,      \* main: whether input() has been called
    exit_code,     \* the process exit status (NoExit while running)
    exc,           \* the exception that left the running function ("none": none)
    fstate,        \* the output file: "unopened", "open", "closed"
    file,          \* the lines written to the output file so far
    submitted,     \* save_all_ips: how many prefixes have been submitted
    future,        \* save_all_ips: state and result of each submitted task
    cur,           \* save_all_ips: the future the loop body is handling (0: none)
    pos,           \* save_all_ips: how many of cur's ips have been written
    yielded,       \* as_completed: the futures already yielded, in order
    skipped,       \* futures whose collection ended in the except branch
    total_ips,     \* save_all_ips: total_ips
    prefix_stats,  \* save_all_ips: prefix_stats
    gen_in,        \* generate_ips_for_prefix called alone: its argument
    gen_out        \* generate_ips_for_prefix called alone: its return value

vars == <<pc, asn, batch, run, prefixes, response, prompted, exit_code, exc,
          fstate, file, submitted, future, cur, pos, yielded, skipped,
          total_ips, prefix_stats, gen_in, gen_out>>

driverVars == <<asn, batch, run, response, prompted, exit_code>>

genVars == <<gen_in, gen_out>>

collectVars == <<fstate, file, submitted, future, cur, pos, yielded, skipped,
                 total_ips, prefix_stats>>

--------------------------------------------------------------------------
(* Python str operations *)

\* ord(c) for the characters the model's inputs are made of
Ord(c) ==
    CASE c = "\t" -> 9   [] c = "\n" -> 10  [] c = "\r" -> 13  [] c = " " -> 32
      [] c = "-" -> 45   [] c = "." -> 46   [] c = "/" -> 47
      [] c = "0" -> 48   [] c = "1" -> 49   [] c = "2" -> 50   [] c = "3" -> 51
      [] c = "4" -> 52   [] c = "5" -> 53   [] c = "6" -> 54   [] c = "7" -> 55
      [] c = "8" -> 56   [] c = "9" -> 57   [] c = ":" -> 58
      [] c = "A" -> 65   [] c = "E" -> 69   [] c = "N" -> 78   [] c = "O" -> 79
      [] c = "S" -> 83   [] c = "Y" -> 89
      [] c = "a" -> 97   [] c = "b" -> 98   [] c = "c" -> 99   [] c = "d" -> 100
      [] c = "e" -> 101  [] c = "n" -> 110  [] c = "o" -> 111  [] c = "r" -> 114
      [] c = "s" -> 115  [] c = "t" -> 116  [] c = "u" -> 117  [] c = "x" -> 120
      [] c = "y" -> 121

\* str.isspace for one character
IsSpace(c) == c \in {" ", "\t", "\n", "\r"}

\* str.lstrip()
RECURSIVE LStrip(_)
LStrip(s) == IF s # <<>> /\ IsSpace(Head(s)) THEN LStrip(Tail(s)) ELSE s

\* str.rstrip()
RECURSIVE RStrip(_)
RStrip(s) ==
    IF s # <<>> /\ IsSpace(s[Len(s)]) THEN RStrip(SubSeq(s, 1, Len(s) - 1)) ELSE s

\* str.strip()
Strip(s) == RStrip(LStrip(s))

\* str.startswith(p)
StartsWith(s, p) == Len(s) >= Len(p) /\ SubSeq(s, 1, Len(p)) = p

\* str.find(sep): the first index sep occurs at, 0 when it does not occur
Find(s, sep) ==
    LET hits == {i \in 1..(Len(s) - Len(sep) + 1) : SubSeq(s, i, i + Len(sep) - 1) = sep}
    IN  IF hits = {} THEN 0 ELSE CHOOSE i \in hits : \A j \in hits : i <= j

\* str.split(sep), sep not empty
RECURSIVE Split(_, _)
Split(s, sep) ==
    LET i == Find(s, sep)
    IN  IF i = 0 THEN <<s>>
        ELSE <<SubSeq(s, 1, i - 1)>> \o Split(SubSeq(s, i + Len(sep), Len(s)), sep)

\* sep.join(parts)
RECURSIVE Join(_, _)
Join(parts, sep) ==
    IF parts = <<>> THEN <<>>
    ELSE IF Len(parts) = 1 THEN parts[1]
    ELSE parts[1] \o sep \o Join(Tail(parts), sep)

\* c in s
Contains(s, c) == \E i \in 1..Len(s) : s[i] = c

\* s < t for two str: by code point, a proper prefix first
RECURSIVE StrLess(_, _)
StrLess(s, t) ==
    IF t = <<>> THEN FALSE
    ELSE IF s = <<>> THEN TRUE
    ELSE IF Head(s) = Head(t) THEN StrLess(Tail(s), Tail(t))
    ELSE Ord(Head(s)) < Ord(Head(t))

\* sorted(S) for a set of str
RECURSIVE Sorted(_)
Sorted(S) ==
    IF S = {} THEN <<>>
    ELSE LET m == CHOOSE x \in S : \A y \in S \ {x} : StrLess(x, y)
         IN  <<m>> \o Sorted(S \ {m})

\* set(seq)
Range(seq) == {seq[i] : i \in 1..Len(seq)}

\* str.lower() and str.upper(), one character
LowerChar(c) ==
    IF c \in {"A", "E", "N", "O", "S", "Y"}
    THEN CASE c = "A" -> "a" [] c = "E" -> "e" [] c = "N" -> "n"
           [] c = "O" -> "o" [] c = "S" -> "s" [] c = "Y" -> "y"
    ELSE c

UpperChar(c) ==
    IF c \in {"a", "e", "n", "o", "s", "y"}
    THEN CASE c = "a" -> "A" [] c = "e" -> "E" [] c = "n" -> "N"
           [] c = "o" -> "O" [] c = "s" -> "S" [] c = "y" -> "Y"
    ELSE c

Lower(s) == [i \in 1..Len(s) |-> LowerChar(s[i])]

Upper(s) == [i \in 1..Len(s) |-> UpperChar(s[i])]

--------------------------------------------------------------------------
(* get_all_prefixes_from_asn, lines 7-30 *)

RouteLabel == <<"r", "o", "u", "t", "e", ":">>

\* a faulty variant of RoutePrefixes: the value is not trimmed
RECURSIVE RoutePrefixesUntrimmed(_)
RoutePrefixesUntrimmed(lines) ==
    IF lines = <<>> THEN <<>>
    ELSE LET line   == Head(lines)
             prefix == Split(line, RouteLabel)[2]
         IN  (IF StartsWith(Strip(line), RouteLabel) /\ Contains(prefix, "/")
              THEN <<prefix>> ELSE <<>>) \o RoutePrefixesUntrimmed(Tail(lines))

\* lines 19-23: the prefixes list built from the response's lines
RECURSIVE RoutePrefixes(_)
RoutePrefixes(lines) ==
    IF lines = <<>> THEN <<>>
    ELSE LET line   == Head(lines)
             prefix == Strip(Split(line, RouteLabel)[2])
         IN  (IF StartsWith(Strip(line), RouteLabel) /\ Contains(prefix, "/")
              THEN <<prefix>> ELSE <<>>) \o RoutePrefixes(Tail(lines))

\* a faulty variant of get_all_prefixes_from_asn: the exit status of whois is
\* not looked at
get_all_prefixes_any_status(r) ==
    IF r.raised THEN <<>>
    ELSE Sorted(Range(RoutePrefixes(Split(r.stdout, <<"\n">>))))

\* r is what subprocess.run did: raised (a timeout, no whois binary), or
\* returned a returncode and a stdout
get_all_prefixes_from_asn(r) ==
    IF r.raised THEN <<>>
    ELSE IF r.returncode # 0 THEN <<>>
    ELSE Sorted(Range(RoutePrefixes(Split(r.stdout, <<"\n">>))))

--------------------------------------------------------------------------
(* ipaddress.ip_network(prefix, strict=False) and the str of an address,  *)
(* for IPv4 text "a.b.c.d/n".  A 32-bit address is held as its four        *)
(* big-endian bytes (int.to_bytes(4, 'big')).  Inputs outside the model:  *)
(* IPv6 text and a mask written as a dotted netmask.                       *)

Digits == <<"0", "1", "2", "3", "4", "5", "6", "7", "8", "9">>

\* str.isdigit(), for a non-empty ASCII str
IsDigits(s) == s # <<>> /\ \A i \in 1..Len(s) : \E d \in 1..10 : Digits[d] = s[i]

DigitValue(c) == (CHOOSE d \in 1..10 : Digits[d] = c) - 1

\* int(s, 10) of a str of digits
RECURSIVE ParseInt(_)
ParseInt(s) ==
    IF s = <<>> THEN 0
    ELSE 10 * ParseInt(SubSeq(s, 1, Len(s) - 1)) + DigitValue(s[Len(s)])

\* str(v) of an int v >= 0
RECURSIVE IntToStr(_)
IntToStr(v) ==
    IF v < 10 THEN <<Digits[v + 1]>> ELSE IntToStr(v \div 10) \o <<Digits[(v % 10) + 1]>>

\* IPv4Address._parse_octet accepts the octet
OctetOk(s) ==
    /\ IsDigits(s)
    /\ Len(s) <= 3
    /\ (s # <<"0">> => s[1] # "0")
    /\ ParseInt(s) <= 255

\* IPv4Network._prefix_from_prefix_string accepts the mask
MaskOk(s) == IsDigits(s) /\ ParseInt(s) <= 32

\* 2^k
RECURSIVE Pow2(_)
Pow2(k) == IF k = 0 THEN 1 ELSE 2 * Pow2(k - 1)

\* how many of the bits of byte k (1..4) a prefix of length n covers
BitsKept(k, n) ==
    LET b == n - 8 * (k - 1) IN IF b < 0 THEN 0 ELSE IF b > 8 THEN 8 ELSE b

\* a faulty variant of MaskHostBits: the host bits are left as written
MaskHostBitsKept(bytes, n) == bytes

\* packed & int(netmask): the host bits masked off (strict=False)
MaskHostBits(bytes, n) ==
    [k \in 1..4 |-> bytes[k] - (bytes[k] % Pow2(8 - BitsKept(k, n)))]

\* ip_network(prefix, strict=False): ok with the network address and the
\* prefix length, or not ok (ValueError)
ip_network(prefix) ==
    LET parts  == Split(prefix, <<"/">>)
        octets == Split(parts[1], <<".">>)
        bad    == [ok |-> FALSE, address |-> <<0, 0, 0, 0>>, prefixlen |-> 0]
    IN  IF Len(parts) > 2 THEN bad
        ELSE IF Len(octets) # 4 \/ \E k \in 1..4 : ~OctetOk(octets[k]) THEN bad
        ELSE IF Len(parts) = 2 /\ ~MaskOk(parts[2]) THEN bad
        ELSE LET n == IF Len(parts) = 2 THEN ParseInt(parts[2]) ELSE 32
             IN  [ok |-> TRUE,
                  address |-> MaskHostBits([k \in 1..4 |-> ParseInt(octets[k])], n),
                  prefixlen |-> n]

\* the address `offset` after `bytes`, with carry from byte to byte
AddOffset(bytes, offset) ==
    LET s4 == bytes[4] + offset
        s3 == bytes[3] + (s4 \div 256)
        s2 == bytes[2] + (s3 \div 256)
        s1 == bytes[1] + (s2 \div 256)
    IN  <<s1 % 256, s2 % 256, s3 % 256, s4 % 256>>

\* str(IPv4Address): the four bytes in decimal joined by "."
AddressStr(bytes) == Join([k \in 1..4 |-> IntToStr(bytes[k])], <<".">>)

\* iterating a network: every address from the network address to the
\* broadcast address, both included
NetworkAddresses(net) ==
    [i \in 1..Pow2(32 - net.prefixlen) |-> AddOffset(net.address, i - 1)]

--------------------------------------------------------------------------
(* generate_ips_for_prefix, lines 32-39 *)

\* a faulty variant of generate_ips_for_prefix: text that does not parse is
\* returned as one address
generate_ips_keeps_text(prefix) ==
    LET network == ip_network(prefix)
    IN  IF network.ok
        THEN LET ips == [i \in 1..Pow2(32 - network.prefixlen) |->
                            AddressStr(NetworkAddresses(network)[i])]
             IN  <<prefix, ips, Len(ips)>>
        ELSE <<prefix, <<prefix>>, 1>>

\* lines 33-36 when ip_network accepts the text, lines 37-39 when it raises
generate_ips_for_prefix(prefix) ==
    LET network == ip_network(prefix)
    IN  IF network.ok
        THEN LET ips == [i \in 1..Pow2(32 - network.prefixlen) |->
                            AddressStr(NetworkAddresses(network)[i])]
             IN  <<prefix, ips, Len(ips)>>
        ELSE <<prefix, <<>>, 0>>


--------------------------------------------------------------------------
(* save_all_ips, lines 41-68.  pc is the statement the calling thread is  *)
(* at: "open" (line 48), "submit" (line 50), "drain" (line 52, waiting in *)
(* as_completed), "write" (lines 57-58), "returned" (line 68), "raised"   *)
(* (an exception left the function).  The worker threads of the pool move *)
(* each future from "pending" to "running" to "finished".                 *)

\* ThreadPoolExecutor(max_workers=...), line 49.  The source's pool has 10
\* threads; the model's pool is scaled down so that a run of MaxPrefixes
\* tasks fills it and leaves a task waiting in the work queue.
max_workers == 2

NoFuture == [state |-> "new", result |-> <<>>]

Running == {i \in DOMAIN future : future[i].state = "running"}

\* line 48, open(output_file, 'w'): the file is created or truncated, or
\* open raises OSError, which nothing in save_all_ips catches
Open ==
    /\ pc = "open"
    /\ \/ /\ fstate' = "open"
          /\ file' = <<>>
          /\ pc' = "submit"
          /\ exc' = exc
       \/ /\ pc' = "raised"
          /\ exc' = "OSError"
          /\ UNCHANGED <<fstate, file>>
    /\ UNCHANGED <<driverVars, prefixes, submitted, future, cur, pos, yielded,
                   skipped, total_ips, prefix_stats, genVars>>

\* line 50, one executor.submit of the dict comprehension; after the last
\* one the for loop of line 52 starts
Submit ==
    /\ pc = "submit"
    /\ submitted < Len(prefixes)
    /\ submitted' = submitted + 1
    /\ future' = [future EXCEPT ![submitted + 1].state = "pending"]
    /\ pc' = IF submitted + 1 = Len(prefixes) THEN "drain" ELSE "submit"
    /\ UNCHANGED <<driverVars, exc, prefixes, fstate, file, cur, pos, yielded,
                   skipped, total_ips, prefix_stats, genVars>>

\* a pool thread takes the oldest work item off the queue; at most
\* max_workers threads exist
StartTask(i) ==
    /\ future[i].state = "pending"
    /\ \A j \in 1..(i - 1) : future[j].state # "pending"
    /\ Cardinality(Running) < max_workers
    /\ future' = [future EXCEPT ![i].state = "running"]
    /\ UNCHANGED <<driverVars, exc, pc, prefixes, fstate, file, submitted, cur,
                   pos, yielded, skipped, total_ips, prefix_stats, genVars>>

\* a faulty variant of FinishTask: the pool thread writes the addresses to
\* the file itself
FinishTaskWrites(i) ==
    /\ future[i].state = "running"
    /\ future' = [future EXCEPT ![i] = [state |-> "finished",
                                        result |-> generate_ips_for_prefix(prefixes[i])]]
    /\ file' = file \o generate_ips_for_prefix(prefixes[i])[2]
    /\ UNCHANGED <<driverVars, exc, pc, prefixes, fstate, submitted, cur, pos,
                   yielded, skipped, total_ips, prefix_stats, genVars>>

\* the pool thread runs generate_ips_for_prefix(prefix) and sets the
\* future's result; it writes nothing else
FinishTask(i) ==
    /\ future[i].state = "running"
    /\ future' = [future EXCEPT ![i] = [state |-> "finished",
                                        result |-> generate_ips_for_prefix(prefixes[i])]]
    /\ UNCHANGED <<driverVars, exc, pc, prefixes, fstate, file, submitted, cur,
                   pos, yielded, skipped, total_ips, prefix_stats, genVars>>

\* lines 52-55: as_completed yields a finished future it has not yielded
\* yet, and future.result() returns the task's tuple
YieldFuture(i) ==
    /\ pc = "drain"
    /\ future[i].state = "finished"
    /\ \A k \in 1..Len(yielded) : yielded[k] # i
    /\ yielded' = Append(yielded, i)
    /\ cur' = i
    /\ pos' = 0
    /\ pc' = "write"
    /\ UNCHANGED <<driverVars, exc, prefixes, fstate, file, submitted, future,
                   skipped, total_ips, prefix_stats, genVars>>

\* lines 57-58: f.write of the next address of the current result
WriteIp ==
    /\ pc = "write"
    /\ pos < Len(future[cur].result[2])
    /\ file' = Append(file, future[cur].result[2][pos + 1])
    /\ pos' = pos + 1
    /\ UNCHANGED <<driverVars, exc, pc, prefixes, fstate, submitted, future,
                   cur, yielded, skipped, total_ips, prefix_stats, genVars>>

\* a faulty variant of WriteFails: the exception is not caught and leaves
\* save_all_ips
WriteFailsUncaught ==
    /\ pc = "write"
    /\ pos < Len(future[cur].result[2])
    /\ skipped' = skipped \cup {cur}
    /\ exc' = "OSError"
    /\ pc' = "raised"
    /\ UNCHANGED <<driverVars, prefixes, fstate, file, submitted, future, cur,
                   pos, yielded, total_ips, prefix_stats, genVars>>

\* line 58 raises (OSError: the disk is full, the device failed); lines
\* 65-66 catch it and the loop goes on with the next future.  What was
\* written stays written
WriteFails ==
    /\ pc = "write"
    /\ pos < Len(future[cur].result[2])
    /\ skipped' = skipped \cup {cur}
    /\ cur' = 0
    /\ pos' = 0
    /\ pc' = "drain"
    /\ UNCHANGED <<driverVars, exc, prefixes, fstate, file, submitted, future,
                   yielded, total_ips, prefix_stats, genVars>>

\* a faulty variant of Collected: the total is assigned, not added to
CollectedAssigns ==
    /\ pc = "write"
    /\ pos = Len(future[cur].result[2])
    /\ total_ips' = future[cur].result[3]
    /\ prefix_stats' = Append(prefix_stats, <<future[cur].result[1], future[cur].result[3]>>)
    /\ cur' = 0
    /\ pos' = 0
    /\ pc' = "drain"
    /\ UNCHANGED <<driverVars, exc, prefixes, fstate, file, submitted, future,
                   yielded, skipped, genVars>>

\* lines 60-63: after the last address, the total and the statistics
Collected ==
    /\ pc = "write"
    /\ pos = Len(future[cur].result[2])
    /\ total_ips' = total_ips + future[cur].result[3]
    /\ prefix_stats' = Append(prefix_stats, <<future[cur].result[1], future[cur].result[3]>>)
    /\ cur' = 0
    /\ pos' = 0
    /\ pc' = "drain"
    /\ UNCHANGED <<driverVars, exc, prefixes, fstate, file, submitted, future,
                   yielded, skipped, genVars>>

\* as_completed is exhausted; both with blocks exit (the pool is shut
\* down, the file closed) and line 68 returns
Return ==
    /\ pc = "drain"
    /\ Len(yielded) = Len(prefixes)
    /\ fstate' = "closed"
    /\ pc' = "returned"
    /\ UNCHANGED <<driverVars, exc, prefixes, file, submitted, future, cur,
                   pos, yielded, skipped, total_ips, prefix_stats, genVars>>

Worker(i) == StartTask(i) \/ FinishTask(i)

Coordinator ==
    \/ Open
    \/ Submit
    \/ \E i \in DOMAIN future : YieldFuture(i)
    \/ WriteIp
    \/ WriteFails
    \/ Collected
    \/ Return


--------------------------------------------------------------------------
(* save_all_ips called with a set of prefixes *)

\* how many prefixes one call of save_all_ips is given
MaxPrefixes == 3

\* The prefixes the calls are drawn from, each with the addresses it stands
\* for, written out by hand: "10.0.0.0/30", "10.0.0.9/31" (host bits set),
\* "10.0.2.0/29", and "10.0.0/24" (malformed: three octets)
PrefixTable ==
    << [text |-> <<"1", "0", ".", "0", ".", "0", ".", "0", "/", "3", "0">>,
      ips  |-> <<<<"1", "0", ".", "0", ".", "0", ".", "0">>,
                 <<"1", "0", ".", "0", ".", "0", ".", "1">>,
                 <<"1", "0", ".", "0", ".", "0", ".", "2">>,
                 <<"1", "0", ".", "0", ".", "0", ".", "3">>>>],
       [text |-> <<"1", "0", ".", "0", ".", "0", ".", "9", "/", "3", "1">>,
      ips  |-> <<<<"1", "0", ".", "0", ".", "0", ".", "8">>,
                 <<"1", "0", ".", "0", ".", "0", ".", "9">>>>],
       [text |-> <<"1", "0", ".", "0", ".", "2", ".", "0", "/", "2", "9">>,
      ips  |-> <<<<"1", "0", ".", "0", ".", "2", ".", "0">>,
                 <<"1", "0", ".", "0", ".", "2", ".", "1">>,
                 <<"1", "0", ".", "0", ".", "2", ".", "2">>,
                 <<"1", "0", ".", "0", ".", "2", ".", "3">>,
                 <<"1", "0", ".", "0", ".", "2", ".", "4">>,
                 <<"1", "0", ".", "0", ".", "2", ".", "5">>,
                 <<"1", "0", ".", "0", ".", "2", ".", "6">>,
                 <<"1", "0", ".", "0", ".", "2", ".", "7">>>>],
       [text |-> <<"1", "0", ".", "0", ".", "0", "/", "2", "4">>,
      ips  |-> <<>>] >>

TableTexts == {PrefixTable[k].text : k \in 1..Len(PrefixTable)}

\* what main passes: the resolver's sorted list of distinct prefixes
PrefixLists ==
    {Sorted(S) : S \in {T \in SUBSET TableTexts : Cardinality(T) \in 1..MaxPrefixes}}

NoExit == 0 - 1

\* subprocess.run not called yet
NoRun == [called |-> FALSE, raised |-> FALSE, returncode |-> 0, stdout |-> <<>>]

NoAsn == [given |-> FALSE, text |-> <<>>]

DriverIdle ==
    /\ asn = NoAsn
    /\ batch = FALSE
    /\ run = NoRun
    /\ response = <<>>
    /\ prompted = FALSE
    /\ exit_code = NoExit

GenIdle ==
    /\ gen_in = <<>>
    /\ gen_out = <<>>

\* lines 45-46, and nothing submitted yet
CollectStart ==
    /\ fstate = "unopened"
    /\ file = <<>>
    /\ submitted = 0
    /\ future = [i \in 1..Len(prefixes) |-> NoFuture]
    /\ cur = 0
    /\ pos = 0
    /\ yielded = <<>>
    /\ skipped = {}
    /\ total_ips = 0
    /\ prefix_stats = <<>>

InitCollect ==
    /\ pc = "open"
    /\ exc = "none"
    /\ prefixes \in PrefixLists
    /\ CollectStart
    /\ DriverIdle
    /\ GenIdle

NextCollect ==
    \/ Coordinator
    \/ \E i \in DOMAIN future : Worker(i)

SpecCollect == InitCollect /\ [][NextCollect]_vars

\* The operating system schedules every thread that can take a step: the
\* thread that called save_all_ips, and the threads of the pool, which take
\* the waiting tasks and run them to their end.  A running task can always
\* finish and only finishing ends its running, so weak fairness of
\* FinishTask(i) is that task i is again and again not running
FairCollect ==
    /\ WF_vars(Coordinator)
    /\ WF_vars(\E i \in DOMAIN future : StartTask(i))
    /\ \A i \in 1..MaxPrefixes :
          []<>(~(i \in DOMAIN future /\ future[i].state = "running"))

SpecCollectFair == InitCollect /\ [][NextCollect]_vars /\ FairCollect


--------------------------------------------------------------------------
(* main, lines 70-113.  pc: "normalize" (lines 81-83), "resolve" (line    *)
(* 88), "check" (line 90), "prompt" (lines 96-99), "call" (line 107),     *)
(* then save_all_ips's positions, then "exited".                          *)

\* what the user may pass as --asn: nothing, "as1", "1", "AS1"
AsnArgs ==
    {NoAsn,
     [given |-> TRUE, text |-> <<"a", "s", "1">>],
     [given |-> TRUE, text |-> <<"1">>],
     [given |-> TRUE, text |-> <<"A", "S", "1">>]}

\* What subprocess.run may do, each with the sorted list of the distinct
\* prefixes a reader finds on the route: lines of its stdout, written out
\* by hand
WhoisTable ==
    <<
    \* subprocess.run raised (TimeoutExpired, FileNotFoundError)
       [run |-> [called |-> TRUE, raised |-> TRUE, returncode |-> 0,
                 stdout |-> <<>>],
        routes |-> <<>>],
    \* whois exited with status 1, having printed a route
       [run |-> [called |-> TRUE, raised |-> FALSE, returncode |-> 1,
                 stdout |-> <<"r", "o", "u", "t", "e", ":", " ", "1", "0", ".", "0", ".", "0", ".", "0", "/", "3", "0", "\n">>],
        routes |-> << <<"1", "0", ".", "0", ".", "0", ".", "0", "/", "3", "0">> >>],
    \* an empty response
       [run |-> [called |-> TRUE, raised |-> FALSE, returncode |-> 0,
                 stdout |-> <<>>],
        routes |-> <<>>],
    \* a response with no route: line that holds a prefix
       [run |-> [called |-> TRUE, raised |-> FALSE, returncode |-> 0,
                 stdout |-> <<"o", "r", "i", "g", "i", "n", ":", " ", "A", "S", "1", "\n", "r", "o", "u", "t", "e", ":", " ", "1", "0", ".", "0", ".", "0", ".", "9", "\n", "r", "o", "u", "t", "e", "6", ":", " ", "2", "0", "0", "1", ":", "d", "b", "8", ":", ":", "/", "3", "2", "\n">>],
        routes |-> <<>>],
    \* two spellings of one route and a malformed one
       [run |-> [called |-> TRUE, raised |-> FALSE, returncode |-> 0,
                 stdout |-> <<"r", "o", "u", "t", "e", ":", " ", " ", "1", "0", ".", "0", ".", "0", ".", "9", "/", "3", "1", "\n", "r", "o", "u", "t", "e", ":", " ", " ", " ", "1", "0", ".", "0", ".", "0", ".", "9", "/", "3", "1", "\n", "d", "e", "s", "c", "r", ":", " ", "x", "\n", "r", "o", "u", "t", "e", ":", " ", "1", "0", ".", "0", ".", "0", "/", "2", "4", "\n">>],
        routes |-> <<<<"1", "0", ".", "0", ".", "0", ".", "9", "/", "3", "1">>, <<"1", "0", ".", "0", ".", "0", "/", "2", "4">>>>],
    \* two routes, listed out of order
       [run |-> [called |-> TRUE, raised |-> FALSE, returncode |-> 0,
                 stdout |-> <<"r", "o", "u", "t", "e", ":", " ", "9", ".", "2", "5", "5", ".", "2", "5", "5", ".", "2", "5", "5", "/", "3", "2", "\n", "r", "o", "u", "t", "e", ":", " ", "1", "0", ".", "0", ".", "0", ".", "0", "/", "3", "0", "\n">>],
        routes |-> <<<<"1", "0", ".", "0", ".", "0", ".", "0", "/", "3", "0">>, <<"9", ".", "2", "5", "5", ".", "2", "5", "5", ".", "2", "5", "5", "/", "3", "2">>>>] >>

WhoisRuns == {WhoisTable[k].run : k \in 1..Len(WhoisTable)}

\* what the user may type at the prompt: "y", "YES", "Ye", "no", "",
\* " yes", "yes\r", "n"
Responses ==
    {<<"y">>,
     <<"Y", "E", "S">>,
     <<"Y", "e">>,
     <<"n", "o">>,
     <<>>,
     <<" ", "y", "e", "s">>,
     <<"y", "e", "s", "\r">>,
     <<"n">>}

\* a faulty variant of YesList: "n" is taken for a yes
YesListWithN == {<<"y", "e">>, <<"y", "e", "s">>, <<"y">>, <<"n">>}

\* line 101: the list the lowered response is looked up in
YesList == {<<"y", "e">>, <<"y", "e", "s">>, <<"y">>}

InitMain ==
    /\ pc = "normalize"
    /\ exc = "none"
    /\ asn \in AsnArgs
    /\ batch \in BOOLEAN
    /\ run = NoRun
    /\ prefixes = <<>>
    /\ response = <<>>
    /\ prompted = FALSE
    /\ exit_code = NoExit
    /\ CollectStart
    /\ GenIdle

\* lines 81-83; args.asn is None when --asn was not given, and None.upper()
\* raises AttributeError
Normalize ==
    /\ pc = "normalize"
    /\ IF asn.given
       THEN /\ asn' = [given |-> TRUE,
                       text  |-> IF StartsWith(Upper(asn.text), <<"A", "S">>)
                                 THEN Upper(asn.text)
                                 ELSE <<"A", "S">> \o Upper(asn.text)]
            /\ pc' = "resolve"
            /\ exc' = exc
       ELSE /\ pc' = "raised"
            /\ exc' = "AttributeError"
            /\ asn' = asn
    /\ UNCHANGED <<batch, run, prefixes, response, prompted, exit_code,
                   collectVars, genVars>>

\* line 88
Resolve ==
    /\ pc = "resolve"
    /\ \E r \in WhoisRuns :
          /\ run' = r
          /\ prefixes' = get_all_prefixes_from_asn(r)
    /\ pc' = "check"
    /\ UNCHANGED <<asn, batch, response, prompted, exit_code, exc,
                   collectVars, genVars>>

\* a faulty variant of CheckPrefixes: no prefixes, and the exit status is 0
CheckPrefixesExitZero ==
    /\ pc = "check"
    /\ IF prefixes = <<>>
       THEN /\ exit_code' = 0
            /\ pc' = "exited"
       ELSE /\ exit_code' = exit_code
            /\ pc' = IF batch THEN "call" ELSE "prompt"
    /\ UNCHANGED <<asn, batch, run, prefixes, response, prompted, exc,
                   collectVars, genVars>>

\* lines 90-96
CheckPrefixes ==
    /\ pc = "check"
    /\ IF prefixes = <<>>
       THEN /\ exit_code' = 1
            /\ pc' = "exited"
       ELSE /\ exit_code' = exit_code
            /\ pc' = IF batch THEN "call" ELSE "prompt"
    /\ UNCHANGED <<asn, batch, run, prefixes, response, prompted, exc,
                   collectVars, genVars>>

\* lines 97-103: input() returns what the user typed, or raises EOFError
\* when standard input is at its end
Prompt ==
    /\ pc = "prompt"
    /\ prompted' = TRUE
    /\ \/ \E r \in Responses :
             /\ response' = r
             /\ IF Lower(r) \notin YesList
                THEN /\ exit_code' = 0
                     /\ pc' = "exited"
                ELSE /\ exit_code' = exit_code
                     /\ pc' = "call"
             /\ exc' = exc
       \/ /\ exc' = "EOFError"
          /\ pc' = "raised"
          /\ UNCHANGED <<response, exit_code>>
    /\ UNCHANGED <<asn, batch, run, prefixes, collectVars, genVars>>

\* line 107 and lines 42-46: save_all_ips is entered
CallSaveAllIps ==
    /\ pc = "call"
    /\ pc' = "open"
    /\ total_ips' = 0
    /\ prefix_stats' = <<>>
    /\ future' = [i \in 1..Len(prefixes) |-> NoFuture]
    /\ UNCHANGED <<driverVars, exc, prefixes, fstate, file, submitted, cur,
                   pos, yielded, skipped, genVars>>

\* lines 109-113: the summary is printed and main returns
Summary ==
    /\ pc = "returned"
    /\ exit_code' = 0
    /\ pc' = "exited"
    /\ UNCHANGED <<asn, batch, run, prefixes, response, prompted, exc,
                   collectVars, genVars>>

\* an exception nothing catches leaves main: the interpreter prints the
\* traceback and exits with status 1
Uncaught ==
    /\ pc = "raised"
    /\ exit_code' = 1
    /\ pc' = "exited"
    /\ UNCHANGED <<asn, batch, run, prefixes, response, prompted, exc,
                   collectVars, genVars>>

Driver ==
    \/ Normalize
    \/ Resolve
    \/ CheckPrefixes
    \/ Prompt
    \/ CallSaveAllIps
    \/ Summary
    \/ Uncaught

Init == InitMain

Next ==
    \/ Driver
    \/ Coordinator
    \/ \E i \in DOMAIN future : Worker(i)

Spec == Init /\ [][Next]_vars


--------------------------------------------------------------------------
(* get_all_prefixes_from_asn called alone on a WHOIS response *)

\* how many lines a response holds
MaxLines == 2

\* The lines the responses are made of.  For each, written out by hand:
\* whether the line begins with the label route: and the trimmed text after
\* it; whether the line begins with the label once its surrounding
\* whitespace is trimmed, and the trimmed text between the first route: of
\* the line and the next one (or the end of the line)
LineTable ==
    <<
    \* "route:  1.2.3.0/24"
       [line |-> <<"r", "o", "u", "t", "e", ":", " ", " ", "1", ".", "2", ".", "3", ".", "0", "/", "2", "4">>,
        begins |-> TRUE, after |-> <<"1", ".", "2", ".", "3", ".", "0", "/", "2", "4">>,
        begins_stripped |-> TRUE, between |-> <<"1", ".", "2", ".", "3", ".", "0", "/", "2", "4">>],
    \* "route:   1.2.3.0/24"
       [line |-> <<"r", "o", "u", "t", "e", ":", " ", " ", " ", "1", ".", "2", ".", "3", ".", "0", "/", "2", "4">>,
        begins |-> TRUE, after |-> <<"1", ".", "2", ".", "3", ".", "0", "/", "2", "4">>,
        begins_stripped |-> TRUE, between |-> <<"1", ".", "2", ".", "3", ".", "0", "/", "2", "4">>],
    \* "  route: 10.0.0.0/30"
       [line |-> <<" ", " ", "r", "o", "u", "t", "e", ":", " ", "1", "0", ".", "0", ".", "0", ".", "0", "/", "3", "0">>,
        begins |-> FALSE, after |-> <<>>,
        begins_stripped |-> TRUE, between |-> <<"1", "0", ".", "0", ".", "0", ".", "0", "/", "3", "0">>],
    \* "route6: 2001:db8::/32"
       [line |-> <<"r", "o", "u", "t", "e", "6", ":", " ", "2", "0", "0", "1", ":", "d", "b", "8", ":", ":", "/", "3", "2">>,
        begins |-> FALSE, after |-> <<>>,
        begins_stripped |-> FALSE, between |-> <<>>],
    \* "descr: route: 9.9.9.0/24"
       [line |-> <<"d", "e", "s", "c", "r", ":", " ", "r", "o", "u", "t", "e", ":", " ", "9", ".", "9", ".", "9", ".", "0", "/", "2", "4">>,
        begins |-> FALSE, after |-> <<>>,
        begins_stripped |-> FALSE, between |-> <<>>],
    \* "route: 1.2.3.4"
       [line |-> <<"r", "o", "u", "t", "e", ":", " ", "1", ".", "2", ".", "3", ".", "4">>,
        begins |-> TRUE, after |-> <<"1", ".", "2", ".", "3", ".", "4">>,
        begins_stripped |-> TRUE, between |-> <<"1", ".", "2", ".", "3", ".", "4">>],
    \* "route: 10.0.0.0/8 route: 11.0.0.0/8"
       [line |-> <<"r", "o", "u", "t", "e", ":", " ", "1", "0", ".", "0", ".", "0", ".", "0", "/", "8", " ", "r", "o", "u", "t", "e", ":", " ", "1", "1", ".", "0", ".", "0", ".", "0", "/", "8">>,
        begins |-> TRUE, after |-> <<"1", "0", ".", "0", ".", "0", ".", "0", "/", "8", " ", "r", "o", "u", "t", "e", ":", " ", "1", "1", ".", "0", ".", "0", ".", "0", "/", "8">>,
        begins_stripped |-> TRUE, between |-> <<"1", "0", ".", "0", ".", "0", ".", "0", "/", "8">>],
    \* "origin: AS1"
       [line |-> <<"o", "r", "i", "g", "i", "n", ":", " ", "A", "S", "1">>,
        begins |-> FALSE, after |-> <<>>,
        begins_stripped |-> FALSE, between |-> <<>>],
    \* ""
       [line |-> <<>>,
        begins |-> FALSE, after |-> <<>>,
        begins_stripped |-> FALSE, between |-> <<>>],
    \* "route:10.0.0.4/30\r"
       [line |-> <<"r", "o", "u", "t", "e", ":", "1", "0", ".", "0", ".", "0", ".", "4", "/", "3", "0", "\r">>,
        begins |-> TRUE, after |-> <<"1", "0", ".", "0", ".", "0", ".", "4", "/", "3", "0">>,
        begins_stripped |-> TRUE, between |-> <<"1", "0", ".", "0", ".", "0", ".", "4", "/", "3", "0">>] >>

SampleLines == {LineTable[k].line : k \in 1..Len(LineTable)}

\* every text of the table that holds a "/", in ascending order of
\* Python's str comparison, written out by hand
ValueOrder ==
    << <<"1", ".", "2", ".", "3", ".", "0", "/", "2", "4">>,
       <<"1", "0", ".", "0", ".", "0", ".", "0", "/", "3", "0">>,
       <<"1", "0", ".", "0", ".", "0", ".", "0", "/", "8">>,
       <<"1", "0", ".", "0", ".", "0", ".", "0", "/", "8", " ", "r", "o", "u", "t", "e", ":", " ", "1", "1", ".", "0", ".", "0", ".", "0", "/", "8">>,
       <<"1", "0", ".", "0", ".", "0", ".", "4", "/", "3", "0">> >>

RECURSIVE LineLists(_)
LineLists(n) ==
    IF n = 0 THEN {<<>>}
    ELSE LineLists(n - 1) \cup
         {Append(l, x) : l \in {m \in LineLists(n - 1) : Len(m) = n - 1}, x \in SampleLines}

ResolverRuns ==
    {[called |-> TRUE, raised |-> TRUE, returncode |-> 0, stdout |-> <<>>]} \cup
    {[called |-> TRUE, raised |-> FALSE, returncode |-> rc, stdout |-> Join(l, <<"\n">>)] :
        rc \in {0, 1}, l \in LineLists(MaxLines)}

InitResolver ==
    /\ pc = "resolver_call"
    /\ exc = "none"
    /\ run \in ResolverRuns
    /\ prefixes = <<>>
    /\ asn = NoAsn
    /\ batch = FALSE
    /\ response = <<>>
    /\ prompted = FALSE
    /\ exit_code = NoExit
    /\ CollectStart
    /\ GenIdle

ResolveAlone ==
    /\ pc = "resolver_call"
    /\ prefixes' = get_all_prefixes_from_asn(run)
    /\ pc' = "resolver_done"
    /\ UNCHANGED <<asn, batch, run, response, prompted, exit_code, exc,
                   collectVars, genVars>>

NextResolver == ResolveAlone

SpecResolver == InitResolver /\ [][NextResolver]_vars


--------------------------------------------------------------------------
(* generate_ips_for_prefix called alone on a prefix *)

\* the longest host part of the prefixes: the mask lengths are
\* 32 - MaxHostBits .. 32
MaxHostBits == 9

\* the addresses the valid prefixes are written with, as four bytes
SampleBytes ==
    {<<b1, 0, b3, b4>> : b1 \in {10, 255}, b3 \in {0, 1, 255}, b4 \in {0, 5, 255}}

\* the text "a.b.c.d/n"
PrefixText(bytes, n) == AddressStr(bytes) \o <<"/">> \o IntToStr(n)

ValidPrefixes ==
    {PrefixText(b, n) : b \in SampleBytes, n \in (32 - MaxHostBits)..32}

\* text ip_network rejects: "10.0.0/24", "10.0.0.256/30", "10.0.0.0/33", "not-a-prefix", "10.0.0.0/",
\* "10.0.0.0/24/1", "", "10.0.0.0/3x", "10..0.0/24", "/24"
MalformedPrefixes ==
    {<<"1", "0", ".", "0", ".", "0", "/", "2", "4">>,
     <<"1", "0", ".", "0", ".", "0", ".", "2", "5", "6", "/", "3", "0">>,
     <<"1", "0", ".", "0", ".", "0", ".", "0", "/", "3", "3">>,
     <<"n", "o", "t", "-", "a", "-", "p", "r", "e", "f", "i", "x">>,
     <<"1", "0", ".", "0", ".", "0", ".", "0", "/">>,
     <<"1", "0", ".", "0", ".", "0", ".", "0", "/", "2", "4", "/", "1">>,
     <<>>,
     <<"1", "0", ".", "0", ".", "0", ".", "0", "/", "3", "x">>,
     <<"1", "0", ".", ".", "0", ".", "0", "/", "2", "4">>,
     <<"/", "2", "4">>}

InitExpander ==
    /\ pc = "expander_call"
    /\ exc = "none"
    /\ gen_in \in ValidPrefixes \cup MalformedPrefixes
    /\ gen_out = <<>>
    /\ prefixes = <<>>
    /\ CollectStart
    /\ DriverIdle

ExpandAlone ==
    /\ pc = "expander_call"
    /\ gen_out' = generate_ips_for_prefix(gen_in)
    /\ pc' = "expander_done"
    /\ UNCHANGED <<driverVars, exc, prefixes, collectVars, gen_in>>

NextExpander == ExpandAlone

SpecExpander == InitExpander /\ [][NextExpander]_vars


--------------------------------------------------------------------------
(* Properties of generate_ips_for_prefix called alone *)

\* the four bytes an address text "a.b.c.d" reads as
BytesOf(text) == [k \in 1..4 |-> ParseInt(Split(text, <<".">>)[k])]

\* the low 24 bits of an address, as a number
Low24(bytes) == bytes[2] * 65536 + bytes[3] * 256 + bytes[4]

\* text is four decimal numbers of 0..255 without leading zeros, joined by "."
IsDottedQuad(text) ==
    LET o == Split(text, <<".">>)
    IN  Len(o) = 4 /\ \A k \in 1..4 : OctetOk(o[k])

\* C7: for a valid IPv4 prefix a/n, host bits set or not,
\* generate_ips_for_prefix returns the prefix text unchanged, a list of
\* exactly 2^(32-n) dotted-quad addresses that starts at a with its host bits
\* cleared and goes up by one at each step (so the network and the broadcast
\* address are in it), and a count equal to the length of the list.
C7_ExpandsWholeNetwork ==
    pc = "expander_done" =>
        \A b \in SampleBytes, n \in (32 - MaxHostBits)..32 :
            gen_in = PrefixText(b, n) =>
                LET ips  == gen_out[2]
                    size == Pow2(32 - n)
                IN  /\ gen_out[1] = gen_in
                    /\ Len(ips) = size
                    /\ gen_out[3] = Len(ips)
                    /\ \A i \in 1..Len(ips) : IsDottedQuad(ips[i])
                    /\ BytesOf(ips[1])[1] = b[1]
                    /\ Low24(BytesOf(ips[1])) = Low24(b) - (Low24(b) % size)
                    /\ \A i \in 1..(Len(ips) - 1) :
                          /\ BytesOf(ips[i + 1])[1] = BytesOf(ips[i])[1]
                          /\ Low24(BytesOf(ips[i + 1])) = Low24(BytesOf(ips[i])) + 1

\* "10.0.0.5/30" has been expanded to 10.0.0.4 .. 10.0.0.7
C7_Witness ==
    /\ pc = "expander_done"
    /\ gen_in = <<"1", "0", ".", "0", ".", "0", ".", "5", "/", "3", "0">>
    /\ gen_out = << <<"1", "0", ".", "0", ".", "0", ".", "5", "/", "3", "0">>,
                    << <<"1", "0", ".", "0", ".", "0", ".", "4">>,
                       <<"1", "0", ".", "0", ".", "0", ".", "5">>,
                       <<"1", "0", ".", "0", ".", "0", ".", "6">>,
                       <<"1", "0", ".", "0", ".", "0", ".", "7">> >>,
                    4 >>

--------------------------------------------------------------------------
(* Properties of get_all_prefixes_from_asn called alone *)

LineRow(line) == LineTable[CHOOSE k \in 1..Len(LineTable) : LineTable[k].line = line]

ResponseLines == Range(Split(run.stdout, <<"\n">>))

\* seq lists texts of ValueOrder in strictly ascending order
Ascending(seq) ==
    /\ \A i \in 1..Len(seq) : \E k \in 1..Len(ValueOrder) : ValueOrder[k] = seq[i]
    /\ \A i, j \in 1..Len(seq) :
          i < j => \E k, l \in 1..Len(ValueOrder) :
                      k < l /\ ValueOrder[k] = seq[i] /\ ValueOrder[l] = seq[j]

\* C6 as stated: for a response with exit status 0 the resolver returns, in
\* sorted order without duplicates, exactly the trimmed texts that follow
\* the label on the lines that begin with route: and hold a "/"; a line that
\* does not begin with route: adds nothing.
C6_AsStated ==
    (pc = "resolver_done" /\ ~run.raised /\ run.returncode = 0) =>
        /\ Range(prefixes) =
              {LineRow(l).after : l \in {m \in ResponseLines :
                    LineRow(m).begins /\ Contains(LineRow(m).after, "/")}}
        /\ Ascending(prefixes)

\* C6, amended: for a response with exit status 0 the resolver returns, in
\* sorted order without duplicates, exactly the trimmed texts found between
\* the first route: of a line and the next route: of that line (or its end),
\* for the lines that begin with route: once their surrounding whitespace is
\* trimmed, when that text holds a "/"; other lines and texts without a "/"
\* add nothing, and two route lines that differ only in spacing give one
\* prefix.
C6_RoutesOfResponse ==
    (pc = "resolver_done" /\ ~run.raised /\ run.returncode = 0) =>
        /\ Range(prefixes) =
              {LineRow(l).between : l \in {m \in ResponseLines :
                    LineRow(m).begins_stripped /\ Contains(LineRow(m).between, "/")}}
        /\ Ascending(prefixes)

\* two spellings of one route have been resolved to one prefix
C6_Witness ==
    /\ pc = "resolver_done"
    /\ run.returncode = 0
    /\ run.stdout = <<"r", "o", "u", "t", "e", ":", " ", " ", "1", ".", "2", ".", "3", ".", "0", "/", "2", "4", "\n", "r", "o", "u", "t", "e", ":", " ", " ", " ", "1", ".", "2", ".", "3", ".", "0", "/", "2", "4">>
    /\ prefixes = << <<"1", ".", "2", ".", "3", ".", "0", "/", "2", "4">> >>


--------------------------------------------------------------------------
(* Properties of main *)

WhoisRow(r) == WhoisTable[CHOOSE k \in 1..Len(WhoisTable) : WhoisTable[k].run = r]

\* the lookup failed: subprocess.run raised, whois exited non-zero, or the
\* response holds no route: line with a prefix
LookupFailed ==
    /\ run.called
    /\ \/ run.raised
       \/ run.returncode # 0
       \/ WhoisRow(run).routes = <<>>

\* save_all_ips has been entered
CollectorEntered ==
    \/ pc \in {"open", "submit", "drain", "write", "returned"}
    \/ fstate # "unopened"
    \/ exc = "OSError"

\* C3: when the WHOIS lookup exits non-zero, times out or raises, or
\* returns a response with no usable route: line, the resolver returns the
\* empty list without raising, and main exits with status 1 without the
\* prompt having been shown, the output file opened or the collector run.
C3_FailedLookupExitsOne ==
    LookupFailed =>
        /\ prefixes = <<>>
        /\ exc = "none"
        /\ pc \in {"check", "exited"}
        /\ pc = "exited" => exit_code = 1
        /\ ~prompted
        /\ fstate = "unopened"
        /\ file = <<>>
        /\ ~CollectorEntered

\* a response with lines but no usable route: line has ended the run
C3_Witness ==
    /\ pc = "exited"
    /\ exit_code = 1
    /\ ~run.raised
    /\ run.returncode = 0
    /\ run.stdout # <<>>
    /\ prefixes = <<>>
    /\ ~prompted

\* every spelling of "y", "ye", "yes" in upper and lower case
YesSpellings ==
    {<<"y">>,
     <<"Y">>,
     <<"y", "e">>,
     <<"y", "E">>,
     <<"Y", "e">>,
     <<"Y", "E">>,
     <<"y", "e", "s">>,
     <<"y", "e", "S">>,
     <<"y", "E", "s">>,
     <<"y", "E", "S">>,
     <<"Y", "e", "s">>,
     <<"Y", "e", "S">>,
     <<"Y", "E", "s">>,
     <<"Y", "E", "S">>}

\* C4: once a non-empty prefix list is resolved: with --batch the prompt is
\* never reached and the collector runs; without --batch the collector runs
\* only after a response that is "y", "ye" or "yes" in some mix of cases,
\* and after any other response the process has exited with status 0 and
\* the output file was never opened or written.
C4_ConfirmationGate ==
    /\ batch => ~prompted
    /\ (batch /\ run.called /\ prefixes # <<>> /\ pc # "check") =>
           (pc = "call" \/ CollectorEntered)
    /\ (~batch /\ (pc = "call" \/ CollectorEntered)) =>
           (prompted /\ response \in YesSpellings)
    /\ (~batch /\ prompted /\ exc # "EOFError" /\ response \notin YesSpellings) =>
           /\ pc = "exited"
           /\ exit_code = 0
           /\ fstate = "unopened"
           /\ file = <<>>
           /\ ~CollectorEntered

\* " yes", with a space before it, has been answered and the run is over
C4_Witness ==
    /\ ~batch
    /\ prompted
    /\ response = <<" ", "y", "e", "s">>
    /\ pc = "exited"
    /\ exit_code = 0
    /\ fstate = "unopened"

\* C5 as stated, on the runs in which the prompt, when shown, is answered:
\* the exit status is 1 exactly when no prefixes were resolved (a run without
\* --asn resolves none) and 0 in every other outcome; a failure to open the
\* output file, a malformed prefix or a failed collection do not change it.
C5_AsStated ==
    (pc = "exited" /\ exc # "EOFError") =>
        exit_code = (IF prefixes = <<>> THEN 1 ELSE 0)

\* C5, amended: the exit status is 1 exactly when no prefixes were resolved
\* (the lookup failed or found none, or --asn was missing and main raised
\* AttributeError before the lookup) or an exception left main after they
\* were resolved (OSError from opening the output file, EOFError at the
\* prompt), and 0 in every other outcome: a finished collection, with or
\* without malformed prefixes and failed collections, and a declined
\* confirmation.
C5_ExitStatus ==
    /\ exc \in {"none", "AttributeError", "OSError", "EOFError"}
    /\ exc = "AttributeError" => (~asn.given /\ ~run.called /\ prefixes = <<>>)
    /\ exc = "EOFError" => (prompted /\ prefixes # <<>> /\ fstate = "unopened")
    /\ exc = "OSError" => (prefixes # <<>> /\ fstate = "unopened" /\ file = <<>>)
    /\ pc = "exited" =>
          exit_code = (IF prefixes = <<>> \/ exc # "none" THEN 1 ELSE 0)

\* a run in which the collection of a prefix failed has exited with status 0
C5_Witness ==
    /\ pc = "exited"
    /\ exit_code = 0
    /\ skipped # {}
    /\ fstate = "closed"


--------------------------------------------------------------------------
(* Properties of save_all_ips *)

TableRow(text) == PrefixTable[CHOOSE k \in 1..Len(PrefixTable) : PrefixTable[k].text = text]

\* the addresses prefix number i of the call stands for (none: malformed)
Block(i) == TableRow(prefixes[i]).ips

Malformed == {i \in 1..Len(prefixes) : Block(i) = <<>>}

RECURSIVE SumOfSizes(_)
SumOfSizes(list) ==
    IF list = <<>> THEN 0 ELSE Len(TableRow(Head(list)).ips) + SumOfSizes(Tail(list))

RECURSIVE SumOfCounts(_)
SumOfCounts(stats) ==
    IF stats = <<>> THEN 0 ELSE Head(stats)[2] + SumOfCounts(Tail(stats))

\* the whole blocks of the futures order[1], order[2], ... one after the
\* other
RECURSIVE WholeBlocks(_)
WholeBlocks(order) ==
    IF order = <<>> THEN <<>> ELSE Block(Head(order)) \o WholeBlocks(Tail(order))

\* lines is the blocks of the futures order[1], order[2], ... one after the
\* other: a block is whole once collected, is its first pos addresses while
\* it is being written, and is cut short somewhere when its collection
\* failed
RECURSIVE IsBlocks(_, _)
IsBlocks(lines, order) ==
    IF order = <<>> THEN lines = <<>>
    ELSE LET i == Head(order)
             StartsWithBlock(n) ==
                 /\ n <= Len(lines)
                 /\ SubSeq(lines, 1, n) = SubSeq(Block(i), 1, n)
                 /\ IsBlocks(SubSeq(lines, n + 1, Len(lines)), Tail(order))
         IN  IF i = cur THEN StartsWithBlock(pos)
             ELSE IF i \in skipped THEN \E n \in 0..(Len(Block(i)) - 1) : StartsWithBlock(n)
             ELSE StartsWithBlock(Len(Block(i)))

\* the futures collected so far, in the order they were yielded
CollectedOrder == SelectSeq(yielded, LAMBDA i : i # cur /\ i \notin skipped)

\* C1: for distinct valid prefixes and no failed task, when save_all_ips
\* returns the file holds as many lines as the prefixes have addresses in
\* all, total_ips is that number, and prefix_stats holds one (prefix, count)
\* entry for each prefix, whatever order the tasks completed in.
C1_TotalsAtReturn ==
    (pc = "returned" /\ Malformed = {} /\ skipped = {}) =>
        /\ Len(file) = SumOfSizes(prefixes)
        /\ total_ips = SumOfSizes(prefixes)
        /\ Len(prefix_stats) = Len(prefixes)
        /\ Range(prefix_stats) =
              {<<prefixes[i], Len(Block(i))>> : i \in 1..Len(prefixes)}

\* prefixes of 4, 2 and 8 addresses have been collected, the last submitted
\* first: 14 lines, a total of 14, three entries
C1_Witness ==
    /\ pc = "returned"
    /\ prefixes = << <<"1", "0", ".", "0", ".", "0", ".", "0", "/", "3", "0">>,
                    <<"1", "0", ".", "0", ".", "0", ".", "9", "/", "3", "1">>,
                    <<"1", "0", ".", "0", ".", "2", ".", "0", "/", "2", "9">> >>
    /\ yielded = <<3, 1, 2>>
    /\ Len(file) = 14
    /\ total_ips = 14
    /\ Len(prefix_stats) = 3

\* C2, at every state: the file is the blocks of the yielded futures, in the
\* order they were yielded, each block the prefix's addresses in ascending
\* order from its first one, whole or cut short, never mixed with another
\* block; the statistics list the collected prefixes in that order; and no
\* more than max_workers tasks run at once.
C2_FileIsBlocksInYieldOrder ==
    /\ IsBlocks(file, yielded)
    /\ prefix_stats =
          [k \in 1..Len(CollectedOrder) |->
              <<prefixes[CollectedOrder[k]], Len(Block(CollectedOrder[k]))>>]
    /\ Cardinality(Running) <= max_workers

\* C2, at every step: the file, the total and the statistics change only in
\* a step of the thread that drains the completions, taken at line 58 or
\* lines 60-61, in which no task changes state.
C2_OnlyCoordinatorWrites ==
    (file' # file \/ total_ips' # total_ips \/ prefix_stats' # prefix_stats) =>
        (pc = "write" /\ future' = future)

\* C2: under every interleaving of the worker tasks only the thread that
\* drains the completions writes the file and the statistics, so each
\* prefix's addresses are one block in ascending order, never interleaved
\* with another prefix's, and the blocks are in the order the completions
\* were consumed.
C2_SingleWriter ==
    [](C2_FileIsBlocksInYieldOrder) /\ [][C2_OnlyCoordinatorWrites]_vars

\* the coordinator is part-way through writing the last submitted prefix's
\* block while another task has finished and waits and a third still runs
C2_Witness ==
    /\ pc = "write"
    /\ Len(prefixes) = 3
    /\ cur = 3
    /\ pos >= 1
    /\ pos < Len(Block(3))
    /\ future[1].state = "running"
    /\ future[2].state = "finished"
    /\ yielded = <<3>>

\* C8: a malformed prefix in the set makes generate_ips_for_prefix return
\* (prefix, no addresses, 0); it adds no line to the file and nothing to
\* total_ips, and the other prefixes are expanded, written and counted as
\* if it were not there.
C8_MalformedPrefixAddsNothing ==
    /\ \A i \in Malformed :
          future[i].state = "finished" => future[i].result = <<prefixes[i], <<>>, 0>>
    /\ (pc = "returned" /\ Malformed # {} /\ skipped = {}) =>
          LET valid == SelectSeq(yielded, LAMBDA i : i \notin Malformed)
          IN  /\ file = WholeBlocks(valid)
              /\ Len(file) = SumOfSizes(prefixes)
              /\ total_ips = SumOfSizes(prefixes)
              /\ \A i \in 1..Len(prefixes) :
                    i \notin Malformed =>
                        \E k \in 1..Len(prefix_stats) :
                            prefix_stats[k] = <<prefixes[i], Len(Block(i))>>
              /\ \A k \in 1..Len(prefix_stats) :
                    (\E i \in Malformed : prefix_stats[k][1] = prefixes[i]) =>
                        prefix_stats[k][2] = 0

\* the malformed "10.0.0/24" was collected between two valid prefixes
C8_Witness ==
    /\ pc = "returned"
    /\ prefixes = << <<"1", "0", ".", "0", ".", "0", ".", "0", "/", "3", "0">>,
                    <<"1", "0", ".", "0", ".", "0", ".", "9", "/", "3", "1">>,
                    <<"1", "0", ".", "0", ".", "0", "/", "2", "4">> >>
    /\ yielded = <<2, 3, 1>>
    /\ skipped = {}
    /\ Len(file) = 6
    /\ total_ips = 6

\* C10 as stated: after each iteration of the completion loop and at return
\* total_ips is the sum of the counts in prefix_stats and the number of
\* lines written to the file, also when the collection of a prefix failed
\* part-way through writing its addresses.
C10_AsStated ==
    pc \in {"drain", "returned"} =>
        /\ total_ips = SumOfCounts(prefix_stats)
        /\ total_ips = Len(file)

\* C10, at every state, amended
C10_TotalsAgree ==
    pc \in {"drain", "returned"} =>
        /\ total_ips = SumOfCounts(prefix_stats)
        /\ total_ips <= Len(file)
        /\ skipped = {} => total_ips = Len(file)

\* C10, at every step
C10_NeverDecrease ==
    /\ total_ips' >= total_ips
    /\ Len(prefix_stats') >= Len(prefix_stats)

\* C10, amended: after each iteration of the completion loop and at return
\* total_ips is the sum of the counts in prefix_stats; it is the number of
\* lines written to the file as long as no collection has failed, and no
\* more than that number afterwards (the lines a failed collection wrote
\* stay in the file uncounted); total_ips and the length of prefix_stats
\* never decrease.
C10_RunningTotals ==
    [](C10_TotalsAgree) /\ [][C10_NeverDecrease]_vars

\* a collection failed after writing lines, another succeeded, and the call
\* returned with more lines in the file than total_ips counts
C10_Witness ==
    /\ pc = "returned"
    /\ skipped # {}
    /\ total_ips > 0
    /\ Len(file) > total_ips
    /\ total_ips = SumOfCounts(prefix_stats)


--------------------------------------------------------------------------
(* Progress of save_all_ips *)

TaskIs(i, state) == i \in DOMAIN future /\ future[i].state = state

WasYielded(i) == \E k \in 1..Len(yielded) : yielded[k] = i

StateRank(state) ==
    CASE state = "new" -> 0 [] state = "pending" -> 1
      [] state = "running" -> 2 [] state = "finished" -> 3

\* C9, at return: every task has finished and was consumed, and a prefix
\* has no entry in prefix_stats exactly when its collection failed
C9_AllConsumedAtReturn ==
    pc = "returned" =>
        \A i \in DOMAIN future :
            /\ future[i].state = "finished"
            /\ WasYielded(i)
            /\ i \in skipped <=> ~\E k \in 1..Len(prefix_stats) : prefix_stats[k][1] = prefixes[i]
            /\ i \notin skipped =>
                  \E k \in 1..Len(prefix_stats) :
                      prefix_stats[k] = <<prefixes[i], Len(Block(i))>>

\* C9, at every step: a task only moves forward, from submitted to running
\* to finished; none is cancelled or taken back
C9_NoCancellation ==
    \A i \in DOMAIN future :
        StateRank(future'[i].state) >= StateRank(future[i].state)

\* C9: once save_all_ips has opened the file and submits its tasks there is
\* no cancellation: for any number of prefixes, more than the pool has
\* threads included, and under fair scheduling every submitted task runs to
\* its end, the coordinator consumes every completion, and save_all_ips
\* returns; a failed collection leaves only that prefix without an entry in
\* prefix_stats and keeps no other prefix from being collected.
C9_EveryTaskCollected ==
    /\ [](C9_AllConsumedAtReturn)
    /\ [][C9_NoCancellation]_vars
    /\ (fstate = "open") ~> (pc = "returned")
    /\ \A i \in 1..MaxPrefixes :
          /\ TaskIs(i, "pending") ~> TaskIs(i, "finished")
          /\ TaskIs(i, "finished") ~> WasYielded(i)

\* more prefixes than the pool has threads were submitted, the collection of
\* one failed, and save_all_ips returned with an entry for each of the others
C9_Witness ==
    /\ pc = "returned"
    /\ Len(prefixes) > max_workers
    /\ Len(yielded) = Len(prefixes)
    /\ Cardinality(skipped) = 1
    /\ Len(prefix_stats) = Len(prefixes) - 1


====
